---- MODULE Spec2Model ----
(***************************************************************************)
(* Model of .github/scripts/glob_exec.py: a script that expands a glob     *)
(* pattern, drops the paths matched by an exclusion list and runs a shell  *)
(* command once per remaining path, stopping at the first non-zero return  *)
(* code.                                                                   *)
(*                                                                         *)
(* Strings are sequences of one-character strings.  An optional value      *)
(* (Python's None or a value) is a sequence of length 0 or 1.              *)
(***************************************************************************)
EXTENDS Integers, Sequences, FiniteSets, TLC

VARIABLES
    argv_exclude,   \* the --exclude option of the command line, None when omitted
    env_exclude,    \* os.environ.get('GLOB_EXEC_EXCLUDE'), None when unset
    command,        \* args.command, the command template
    files,          \* the paths glob.iglob(args.pattern, recursive=True) yields, in its order
    child_rc,       \* per position of files: the return code its child reports ({} = not run yet)
    args_exclude,   \* args.exclude after parse_args()
    exclude,        \* the module-level list `exclude`
    pc,             \* position of the script
    i,              \* number of paths the for loop has taken from the iterator
    stdout,         \* the progress lines printed so far
    spawned,        \* the commands handed to subprocess.run so far
    running,        \* positions whose child process is running
    returncode,     \* result.returncode of the last finished child
    exit_code,      \* exit status of the script (meaningful when pc = "exited")
    events,         \* history: the order of tests, prints, child starts and child exits
    invocation,     \* 1 for the first invocation of the script, 2 for a second one
    first           \* what the first invocation produced (kept for the second)

vars == <<argv_exclude, env_exclude, command, files, child_rc, args_exclude, exclude,
          pc, i, stdout, spawned, running, returncode, exit_code, events,
          invocation, first>>

----------------------------------------------------------------------------
(* Bounds of the model *)

MaxFiles == 3

MaxExcludeLen == 3

MaxTemplateLen == 4

----------------------------------------------------------------------------
(* Input alphabets *)

None == <<>>

Some(x) == <<x>>

SeqsUpTo(S, n) == UNION {[1..k -> S] : k \in 0..n}

\* Paths the expansion can yield: never the empty string (iglob drops it).
Paths == {<<"a">>, <<"a", "b">>}

ExcludeChars == {"a", "*", "?", ";"}

ExcludeStrings == SeqsUpTo(ExcludeChars, MaxExcludeLen)

TemplateChars == {"x", "{", "}"}

TemplateStrings == SeqsUpTo(TemplateChars, MaxTemplateLen)

\* Return codes subprocess.run reports on POSIX: 0..255, or -N for a child
\* killed by signal N.
ReturnCodes == {-9, 0, 7, 255}

----------------------------------------------------------------------------
(* Pure functions of the script *)

\* Mutant of ArgDefault: the environment variable wins over the option.
ArgDefaultEnvFirst(flag, env) == IF env # None THEN env ELSE flag

\* argparse: the option's value, or default=os.environ.get('GLOB_EXEC_EXCLUDE').
ArgDefault(flag, env) == IF flag # None THEN flag ELSE env

\* str.split(';')
RECURSIVE Split(_, _)
Split(s, acc) ==
    IF s = <<>> THEN <<acc>>
    ELSE IF Head(s) = ";" THEN <<acc>> \o Split(Tail(s), <<>>)
    ELSE Split(Tail(s), Append(acc, Head(s)))

\* Mutant of SplitExclude: the list is not split at all.
SplitExcludeWhole(a) == IF a = None THEN None ELSE Some(<<a[1]>>)

\* exclude = None if args.exclude is None else args.exclude.split(';')
SplitExclude(a) == IF a = None THEN None ELSE Some(Split(a[1], <<>>))

\* fnmatch.fnmatch(name, pat) for patterns of literals, '*' and '?'
RECURSIVE fnmatch(_, _)
fnmatch(name, pat) ==
    IF pat = <<>> THEN name = <<>>
    ELSE IF Head(pat) = "*"
        THEN fnmatch(name, Tail(pat)) \/ (name # <<>> /\ fnmatch(Tail(name), pat))
    ELSE IF Head(pat) = "?"
        THEN name # <<>> /\ fnmatch(Tail(name), Tail(pat))
    ELSE name # <<>> /\ Head(name) = Head(pat) /\ fnmatch(Tail(name), Tail(pat))

\* Mutant of matches: the loop returns after its first pattern.
matchesFirstOnly(file, patterns) ==
    IF patterns = None \/ patterns = Some(<<>>) THEN FALSE
    ELSE fnmatch(file, patterns[1][1])

\* def matches(file, patterns)
matches(file, patterns) ==
    IF patterns = None \/ patterns = Some(<<>>) THEN FALSE
    ELSE \E k \in 1..Len(patterns[1]) : fnmatch(file, patterns[1][k])

\* Python truthiness of args.exclude: None and '' are falsy.
Truthy(a) == a # None /\ a # Some(<<>>)

\* Mutant of Selected: `and` for `or`, with the first test the wrong way round.
SelectedIfExcludeGiven(file, a, patterns) == Truthy(a) /\ (~matches(file, patterns))

\* The condition of line 31: the path is processed.
Selected(file, a, patterns) == (~Truthy(a)) \/ (~matches(file, patterns))

\* f'"{file}"'
Quoted(file) == <<"\"">> \o file \o <<"\"">>

\* str.replace('{}', new): every non-overlapping occurrence, left to right
RECURSIVE Replace(_, _)
Replace(s, new) ==
    IF s = <<>> THEN <<>>
    ELSE IF Len(s) >= 2 /\ s[1] = "{" /\ s[2] = "}"
        THEN new \o Replace(SubSeq(s, 3, Len(s)), new)
    ELSE <<Head(s)>> \o Replace(Tail(s), new)

\* str.replace('{}', new, 1): the first occurrence only
RECURSIVE ReplaceFirst(_, _)
ReplaceFirst(s, new) ==
    IF s = <<>> THEN <<>>
    ELSE IF Len(s) >= 2 /\ s[1] = "{" /\ s[2] = "}"
        THEN new \o SubSeq(s, 3, Len(s))
    ELSE <<Head(s)>> \o ReplaceFirst(Tail(s), new)

\* Mutant of BuildCommand: only the first placeholder is replaced.
BuildCommandFirst(template, file) == ReplaceFirst(template, Quoted(file))

\* args.command.replace('{}', f'"{file}"')
BuildCommand(template, file) == Replace(template, Quoted(file))

\* f'Processing file \'{file}\' ...'
ProgressLine(file) == <<"Processing file '">> \o file \o <<"' ...">>

\* Mutant of ExitStatus: a child killed by signal N is reported the way a shell
\* reports it, 128 + N.
ExitStatusShell(n) == IF n < 0 THEN 128 - n ELSE n % 256

\* exit(n): the exit status a POSIX process reports is n modulo 256.
ExitStatus(n) == n % 256

----------------------------------------------------------------------------
(* Initial states *)

InitWith(templates, excludes) ==
    /\ files \in SeqsUpTo(Paths, MaxFiles)
    /\ command \in templates
    /\ \E pair \in excludes : argv_exclude = pair[1] /\ env_exclude = pair[2]
    /\ child_rc = [j \in 1..Len(files) |-> {}]
    /\ args_exclude = None
    /\ exclude = None
    /\ pc = "parse"
    /\ i = 0
    /\ stdout = <<>>
    /\ spawned = <<>>
    /\ running = {}
    /\ returncode = 0
    /\ exit_code = 0
    /\ events = <<>>
    /\ invocation = 1
    /\ first = <<>>

OptExcludeStrings == {None} \cup {Some(s) : s \in ExcludeStrings}

FewEnvs == {Some(<<>>), Some(<<"a", "*">>)}

\* The exclusion string comes from the option (any string, or none at all) or
\* from the environment (a few strings).
OptionOrEnv == (OptExcludeStrings \X {None}) \cup ({None} \X FewEnvs)

OneTemplate == {<<"x", "{", "}">>}

FewExcludes == {<<None, None>>, <<Some(<<"a">>), None>>,
                <<None, Some(<<"?", "?", ";", "x">>)>>}

\* The environment of the second invocation.
OtherEnvs == {None, Some(<<"*">>)}

Init == InitWith(OneTemplate, OptionOrEnv)

----------------------------------------------------------------------------
(* The script, step by step *)

Event(kind, j) == [kind |-> kind, idx |-> j]

\* lines 19-20: args = parser.parse_args(); exclude = ...
ParseArgs ==
    /\ pc = "parse"
    /\ args_exclude' = ArgDefault(argv_exclude, env_exclude)
    /\ exclude' = SplitExclude(ArgDefault(argv_exclude, env_exclude))
    /\ pc' = "iter"
    /\ UNCHANGED <<argv_exclude, env_exclude, command, files, child_rc, i, stdout,
                   spawned, running, returncode, exit_code, events, invocation, first>>

\* line 30: the for loop takes the next path from the iterator
NextFile ==
    /\ pc = "iter"
    /\ i < Len(files)
    /\ i' = i + 1
    /\ pc' = "test"
    /\ UNCHANGED <<argv_exclude, env_exclude, command, files, child_rc, args_exclude,
                   exclude, stdout, spawned, running, returncode, exit_code, events,
                   invocation, first>>

\* Mutant of FallOffEnd: a pattern that matched nothing is an error.
FallOffEndNoMatchError ==
    /\ pc = "iter"
    /\ i = Len(files)
    /\ pc' = "exited"
    /\ exit_code' = IF i = 0 THEN 1 ELSE 0
    /\ UNCHANGED <<argv_exclude, env_exclude, command, files, child_rc, args_exclude,
                   exclude, i, stdout, spawned, running, returncode, events,
                   invocation, first>>

\* line 30: the iterator is exhausted; the script falls off its end
FallOffEnd ==
    /\ pc = "iter"
    /\ i = Len(files)
    /\ pc' = "exited"
    /\ exit_code' = 0
    /\ UNCHANGED <<argv_exclude, env_exclude, command, files, child_rc, args_exclude,
                   exclude, i, stdout, spawned, running, returncode, events,
                   invocation, first>>

\* line 31: if (not args.exclude) or (not matches(file, exclude))
TestExclude ==
    /\ pc = "test"
    /\ pc' = IF Selected(files[i], args_exclude, exclude) THEN "print" ELSE "iter"
    /\ events' = Append(events, Event("test", i))
    /\ UNCHANGED <<argv_exclude, env_exclude, command, files, child_rc, args_exclude,
                   exclude, i, stdout, spawned, running, returncode, exit_code,
                   invocation, first>>

\* Mutant of PrintProgress: no flush, the line stays in the buffer of the script
\* while the child runs.
PrintProgressUnflushed ==
    /\ pc = "print"
    /\ pc' = "spawn"
    /\ UNCHANGED <<argv_exclude, env_exclude, command, files, child_rc, args_exclude,
                   exclude, i, stdout, spawned, running, returncode, exit_code, events,
                   invocation, first>>

\* lines 32-33: print(...); sys.stdout.flush()
PrintProgress ==
    /\ pc = "print"
    /\ stdout' = Append(stdout, ProgressLine(files[i]))
    /\ events' = Append(events, Event("print", i))
    /\ pc' = "spawn"
    /\ UNCHANGED <<argv_exclude, env_exclude, command, files, child_rc, args_exclude,
                   exclude, i, spawned, running, returncode, exit_code,
                   invocation, first>>

\* line 35: subprocess.run(...) starts the child
SpawnChild ==
    /\ pc = "spawn"
    /\ spawned' = Append(spawned, [idx |-> i, cmd |-> BuildCommand(command, files[i])])
    /\ running' = running \cup {i}
    /\ events' = Append(events, Event("start", i))
    /\ pc' = "wait"
    /\ UNCHANGED <<argv_exclude, env_exclude, command, files, child_rc, args_exclude,
                   exclude, i, stdout, returncode, exit_code, invocation, first>>

\* line 35: subprocess.run(...) returns when the child has ended
ChildExit ==
    /\ pc = "wait"
    /\ \E rc \in (IF child_rc[i] = {} THEN ReturnCodes ELSE child_rc[i]) :
        /\ child_rc' = [child_rc EXCEPT ![i] = {rc}]
        /\ returncode' = rc
    /\ running' = running \ {i}
    /\ events' = Append(events, Event("exit", i))
    /\ pc' = "check"
    /\ UNCHANGED <<argv_exclude, env_exclude, command, files, args_exclude,
                   exclude, i, stdout, spawned, exit_code, invocation, first>>

\* Mutant of CheckResult: the failure is recorded and the loop goes on.
CheckResultDeferred ==
    /\ pc = "check"
    /\ pc' = "iter"
    /\ exit_code' = IF returncode # 0 THEN ExitStatus(returncode) ELSE exit_code
    /\ UNCHANGED <<argv_exclude, env_exclude, command, files, child_rc, args_exclude,
                   exclude, i, stdout, spawned, running, returncode, events,
                   invocation, first>>

\* Mutant of CheckResult: `> 0` for `!= 0`.
CheckResultPositive ==
    /\ pc = "check"
    /\ IF returncode > 0
        THEN pc' = "exited" /\ exit_code' = ExitStatus(returncode)
        ELSE pc' = "iter" /\ UNCHANGED exit_code
    /\ UNCHANGED <<argv_exclude, env_exclude, command, files, child_rc, args_exclude,
                   exclude, i, stdout, spawned, running, returncode, events,
                   invocation, first>>

\* lines 36-37: if result.returncode != 0: exit(result.returncode)
CheckResult ==
    /\ pc = "check"
    /\ IF returncode # 0
        THEN pc' = "exited" /\ exit_code' = ExitStatus(returncode)
        ELSE pc' = "iter" /\ UNCHANGED exit_code
    /\ UNCHANGED <<argv_exclude, env_exclude, command, files, child_rc, args_exclude,
                   exclude, i, stdout, spawned, running, returncode, events,
                   invocation, first>>

\* A second invocation of the script on the same files, with the same command
\* template and the same children, passing as --exclude the string the first
\* invocation took from the environment.
Reinvoke ==
    /\ pc = "exited"
    /\ invocation = 1
    /\ invocation' = 2
    /\ first' = <<stdout, spawned, exit_code>>
    /\ argv_exclude' = env_exclude
    /\ env_exclude' \in OtherEnvs
    /\ args_exclude' = None
    /\ exclude' = None
    /\ pc' = "parse"
    /\ i' = 0
    /\ stdout' = <<>>
    /\ spawned' = <<>>
    /\ running' = {}
    /\ returncode' = 0
    /\ exit_code' = 0
    /\ events' = <<>>
    /\ UNCHANGED <<command, files, child_rc>>

Next ==
    \/ ParseArgs
    \/ NextFile
    \/ FallOffEnd
    \/ TestExclude
    \/ PrintProgress
    \/ SpawnChild
    \/ ChildExit
    \/ CheckResult

Spec == Init /\ [][Next]_vars

\* Every command template, a few exclusion strings.
InitCmd == InitWith(TemplateStrings, FewExcludes)

SpecCmd == InitCmd /\ [][Next]_vars

\* Two invocations: the first takes its exclusion string from the environment.
InitEnv == InitWith(OneTemplate, {None} \X {Some(s) : s \in ExcludeStrings})

NextEnv ==
    \/ Next
    \/ Reinvoke

SpecEnv == InitEnv /\ [][NextEnv]_vars

----------------------------------------------------------------------------
(* Vocabulary of the properties *)

Positions == 1..Len(files)

Happened(kind, j) == \E k \in 1..Len(events) : events[k] = Event(kind, j)

Printed(j) == Happened("print", j)

Started(j) == Happened("start", j)

Exited(j) == Happened("exit", j)

\* The return code the child of position j reported.
RcOf(j) == CHOOSE rc \in child_rc[j] : TRUE

\* The child of position j has ended with a non-zero return code.
FailedAt(j) == Exited(j) /\ RcOf(j) # 0

\* The exclusion string this invocation was given: the option, else the environment.
GivenExclude == IF argv_exclude # None THEN argv_exclude ELSE env_exclude

\* The path of position j is matched by at least one pattern of the exclusion
\* string split on ';'.
ExcludedByList(j) ==
    /\ GivenExclude # None
    /\ LET list == Split(GivenExclude[1], <<>>)
       IN \E k \in 1..Len(list) : fnmatch(files[j], list[k])

\* The positions of the expansion that are not excluded, in expansion order.
RECURSIVE KeptFrom(_)
KeptFrom(j) ==
    IF j > Len(files) THEN <<>>
    ELSE IF ExcludedByList(j) THEN KeptFrom(j + 1)
    ELSE <<j>> \o KeptFrom(j + 1)

Kept == KeptFrom(1)

\* How many commands were run for position j.
RunsOf(j) == Cardinality({k \in 1..Len(spawned) : spawned[k].idx = j})

\* How many commands were run for the path f.
RunsOfPath(f) == Cardinality({k \in 1..Len(spawned) : files[spawned[k].idx] = f})

HasPlaceholder(s) == \E k \in 1..(Len(s) - 1) : s[k] = "{" /\ s[k + 1] = "}"

\* Put the placeholder back wherever the quoted path stands.
RECURSIVE Unsubstitute(_, _)
Unsubstitute(cmd, q) ==
    IF cmd = <<>> THEN <<>>
    ELSE IF Len(cmd) >= Len(q) /\ SubSeq(cmd, 1, Len(q)) = q
        THEN <<"{", "}">> \o Unsubstitute(SubSeq(cmd, Len(q) + 1, Len(cmd)), q)
    ELSE <<Head(cmd)>> \o Unsubstitute(Tail(cmd), q)

\* cmd is the template with every '{}' replaced by the path in double quotes.
IsSubstituted(cmd, template, file) ==
    /\ ~HasPlaceholder(cmd)
    /\ Unsubstitute(cmd, <<"\"">> \o file \o <<"\"">>) = template
    /\ (~HasPlaceholder(template)) => cmd = template

\* No command before position j returned a non-zero code.
NoFailureBefore(j) == \A k \in 1..(j - 1) : ~FailedAt(k)

----------------------------------------------------------------------------
(* C1 *)

\* The run has stopped at position j: everything before it was handled, nothing
\* after it was touched.
StoppedAt(j) ==
    /\ i = j
    /\ pc \in {"check", "exited"}
    /\ running = {}
    /\ \A k \in 1..(j - 1) : ~ExcludedByList(k) => (Started(k) /\ Exited(k))
    /\ \A k \in (j + 1)..Len(files) : ~Printed(k) /\ ~Started(k) /\ RunsOf(k) = 0
    /\ spawned[Len(spawned)].idx = j
    /\ Len(stdout) = Len(spawned)

\* C1 as stated: once a command returns a non-zero code the run ends there:
\* every earlier non-excluded file has had its command run, no later file gets a
\* progress line or a command, and the exit code is the failing command's code.
C1_Original ==
    \A j \in Positions : FailedAt(j) =>
        /\ StoppedAt(j)
        /\ pc = "exited" => exit_code = RcOf(j)

\* C1 (amended): as above, with the exit status being the failing command's
\* return code modulo 256 (the code itself when it is in 1..255).
C1_FailFast ==
    \A j \in Positions : FailedAt(j) =>
        /\ StoppedAt(j)
        /\ pc = "exited" => exit_code = RcOf(j) % 256

\* Three files, the second fails with 7 and the third is never run.
C1_Witness ==
    /\ pc = "exited"
    /\ Len(files) = 3
    /\ Started(1) /\ Exited(1) /\ RcOf(1) = 0
    /\ FailedAt(2) /\ RcOf(2) = 7
    /\ ~ExcludedByList(3) /\ ~Started(3)
    /\ exit_code = 7

----------------------------------------------------------------------------
(* C2 *)

\* C2 as stated: the exit code of the script equals the return code of the
\* first failing child, for every non-zero return code, negative ones included.
C2_Original ==
    (pc = "exited" /\ returncode # 0) => exit_code = returncode

\* C2 (amended): after a failing child the exit status is its return code
\* modulo 256: the code itself for 1..255, 256 - N for the code -N of a child
\* killed by signal N; it is never 0.
C2_ExitStatus ==
    (pc = "exited" /\ returncode # 0) =>
        /\ exit_code = returncode % 256
        /\ exit_code \in 1..255
        /\ returncode \in 1..255 => exit_code = returncode
        /\ returncode < 0 => exit_code = 256 + returncode
        /\ FailedAt(i) /\ RcOf(i) = returncode /\ NoFailureBefore(i)

\* A child killed by signal 9 (return code -9) gives exit status 247.
C2_Witness == pc = "exited" /\ returncode = -9 /\ exit_code = 247

----------------------------------------------------------------------------
(* C3 *)

\* C3: a path matched by at least one pattern of the exclusion list never gets
\* a progress line and never has the command run for it.
C3_ExcludedNeverRun ==
    \A j \in Positions : ExcludedByList(j) =>
        /\ ~Printed(j)
        /\ ~Started(j)
        /\ RunsOfPath(files[j]) = 0
        /\ \A k \in 1..Len(stdout) : stdout[k] # ProgressLine(files[j])

\* A path excluded by the second pattern of the list only, beside one that ran.
C3_Witness ==
    /\ pc = "exited"
    /\ \E j \in Positions :
        /\ ExcludedByList(j)
        /\ LET list == Split(GivenExclude[1], <<>>)
           IN Len(list) >= 2 /\ ~fnmatch(files[j], list[1])
    /\ Len(spawned) >= 1

----------------------------------------------------------------------------
(* C4 *)

\* C4 as stated: every matched path that is not excluded has the command run
\* exactly once, the command being the template with every '{}' replaced by
\* the path in double quotes.
C4_Original ==
    pc = "exited" =>
        \A j \in Positions : ~ExcludedByList(j) =>
            /\ RunsOfPath(files[j]) = 1
            /\ \A k \in 1..Len(spawned) : spawned[k].idx = j =>
                   IsSubstituted(spawned[k].cmd, command, files[j])

\* C4 (amended): every occurrence of a non-excluded path in the expansion has
\* the command run at most once, and exactly once when no earlier command
\* returned a non-zero code (a path the expansion yields twice is run once per
\* occurrence); every command run is the template with every '{}' replaced by
\* the path in double quotes, and the template itself when it has no '{}'.
C4_OncePerOccurrence ==
    /\ \A k \in 1..Len(spawned) :
           /\ ~ExcludedByList(spawned[k].idx)
           /\ IsSubstituted(spawned[k].cmd, command, files[spawned[k].idx])
    /\ \A j \in Positions : RunsOf(j) <= 1
    /\ pc = "exited" =>
        \A j \in Positions : ~ExcludedByList(j) =>
            (RunsOf(j) = 1 <=> NoFailureBefore(j))

\* Two placeholders, two files processed.
C4_Witness ==
    /\ pc = "exited"
    /\ command = <<"{", "}", "{", "}">>
    /\ Len(spawned) = 2
    /\ spawned[2].cmd = <<"\"", "a", "b", "\"", "\"", "a", "b", "\"">>

----------------------------------------------------------------------------
(* C5 *)

\* C5: if every command run returns 0, every matched non-excluded file is
\* processed and the exit code is 0; and the exit code is 0 only if no command
\* run returned a non-zero code.
C5_ExitZero ==
    pc = "exited" =>
        /\ (\A j \in Positions : ~FailedAt(j)) =>
               /\ exit_code = 0
               /\ \A j \in Positions : ~ExcludedByList(j) =>
                      (Printed(j) /\ Started(j) /\ Exited(j))
        /\ exit_code = 0 => (\A j \in Positions : ~FailedAt(j))

\* Three commands ran, all returned 0.
C5_Witness ==
    /\ pc = "exited"
    /\ exit_code = 0
    /\ Len(spawned) = 3
    /\ \A j \in Positions : Exited(j) /\ RcOf(j) = 0

----------------------------------------------------------------------------
(* C6 *)

\* C6: when the pattern matches no file, the script exits with code 0, prints
\* no progress line and starts no child, whatever the exclusion list and the
\* command template.
C6_NoMatch ==
    files = <<>> =>
        /\ stdout = <<>>
        /\ spawned = <<>>
        /\ running = {}
        /\ events = <<>>
        /\ pc = "exited" => exit_code = 0

\* No file, an exclusion list given, the script has ended.
C6_Witness ==
    /\ files = <<>>
    /\ pc = "exited"
    /\ Truthy(args_exclude)
    /\ HasPlaceholder(command)

----------------------------------------------------------------------------
(* C7 *)

\* C7: an invocation that passes --exclude E produces the progress lines, the
\* commands and the exit code of the invocation that omitted --exclude with
\* GLOB_EXEC_EXCLUDE set to E, whatever the environment of the former: the
\* option overrides the environment variable.
C7_EnvDefault ==
    /\ (invocation = 1 /\ pc # "parse") => args_exclude = env_exclude
    /\ (invocation = 2 /\ pc # "parse") => args_exclude = argv_exclude
    /\ (invocation = 2 /\ pc = "exited") => <<stdout, spawned, exit_code>> = first

\* The second invocation has ended under another environment value, one file
\* was excluded and one was processed.
C7_Witness ==
    /\ invocation = 2
    /\ pc = "exited"
    /\ env_exclude # None
    /\ env_exclude # argv_exclude
    /\ Len(first[1]) >= 1
    /\ \E j \in Positions : ExcludedByList(j) /\ j < i

----------------------------------------------------------------------------
(* C8 *)

\* C8: with no exclusion list (no option, no environment variable) or an empty
\* exclusion string, no path is excluded: every matched file is processed, up
\* to the first failing command.
C8_NoExclusion ==
    (GivenExclude = None \/ GivenExclude = Some(<<>>)) =>
        /\ \A j \in Positions : ~ExcludedByList(j)
        /\ \A j \in 1..(i - 1) : Printed(j) /\ Started(j) /\ Exited(j)
        /\ (i >= 1 /\ pc \notin {"test", "print"}) => Printed(i)
        /\ pc = "exited" =>
               \A j \in Positions : NoFailureBefore(j) => (Printed(j) /\ RunsOf(j) = 1)

\* The empty exclusion string, three files processed.
C8_Witness ==
    /\ GivenExclude = Some(<<>>)
    /\ pc = "exited"
    /\ Len(spawned) = 3

----------------------------------------------------------------------------
(* C9 *)

Count(kind) == Cardinality({k \in 1..Len(events) : events[k].kind = kind})

\* C9: events are strictly sequential: a command start is immediately preceded
\* by the progress line of the same file, a child has ended before anything is
\* done for a later file, at most one child runs at a time, and there are as
\* many progress lines as commands started (one more between a line and the
\* start of its command).
C9_Sequential ==
    /\ Cardinality(running) <= 1
    /\ running # {} <=> pc = "wait"
    /\ \A k \in 1..Len(events) :
        /\ events[k].kind = "start" =>
               k > 1 /\ events[k - 1] = Event("print", events[k].idx)
        /\ events[k].kind = "print" =>
               /\ k > 1 /\ events[k - 1] = Event("test", events[k].idx)
               /\ k < Len(events) => events[k + 1] = Event("start", events[k].idx)
               /\ k = Len(events) => pc = "spawn"
        /\ events[k].kind = "exit" =>
               k > 1 /\ events[k - 1] = Event("start", events[k].idx)
        /\ (events[k].kind = "start" /\ k < Len(events)) =>
               events[k + 1] = Event("exit", events[k].idx)
        /\ \A l \in (k + 1)..Len(events) : events[k].idx <= events[l].idx
    /\ Len(stdout) = Count("print")
    /\ Len(spawned) = Count("start")
    /\ Len(stdout) = Len(spawned) + (IF pc = "spawn" THEN 1 ELSE 0)
    /\ \A k \in 1..Len(spawned) : stdout[k] = ProgressLine(files[spawned[k].idx])

\* The second child is running, the first has ended.
C9_Witness ==
    /\ pc = "wait"
    /\ Len(spawned) = 2
    /\ Count("exit") = 1
    /\ Cardinality(running) = 1

----------------------------------------------------------------------------
(* C10 *)

====
